---- MODULE Spec2Model ----
(***************************************************************************)
(* Tic-tac-toe against a minimax adversary: the React component Game of    *)
(* src/src/Game.js.                                                        *)
(*                                                                         *)
(* The component's state is the useState cells of lines 6-14.  The human   *)
(* plays "X" through handleClick, the adversary plays "O" through          *)
(* computerMove, which a 500 ms timer set by the first useEffect calls.    *)
(*                                                                         *)
(* React's scheduling is modelled at the grain the component can observe: *)
(*  - the state updates a handler or timer callback makes are committed   *)
(*    together (one render);                                               *)
(*  - the passive effects of a render (useEffect bodies) run some time     *)
(*    after its commit: eff1Pending / eff2Pending say that the first /     *)
(*    second effect has to re-run because one of its dependencies changed; *)
(*  - an event handler that arrives before the pending effects have run    *)
(*    reads the committed state (its closure); React then flushes the      *)
(*    pending effects, on that same committed state, before it renders the *)
(*    handler's updates.  A handler that sets no state renders nothing.    *)
(*  - a timeout fires once; the cleanup of an effect clears its timeout    *)
(*    when the effect re-runs.                                             *)
(***************************************************************************)
EXTENDS Integers, FiniteSets, Sequences, TLC

VARIABLES
  board,        \* line 6: the 9 cells, "X", "O" or null
  isPlayerTurn, \* line 7
  winner,       \* line 8: null, "X", "O" or "Tie"
  playerScore,  \* line 9
  aiScore,      \* line 10
  draws,        \* line 11
  countdown,    \* line 12
  gameStarted,  \* line 13
  roundReady,   \* line 14
  aiTimer,      \* the 500 ms timeout of line 134 is pending
  cdTimer,      \* the 1000 ms timeout of line 148 is pending
  eff1Pending,  \* the effect of lines 131-144 has to re-run
  eff2Pending,  \* the effect of lines 146-155 has to re-run
  lastOp        \* the operation that made the last commit

vars == <<board, isPlayerTurn, winner, playerScore, aiScore, draws, countdown,
          gameStarted, roundReady, aiTimer, cdTimer, eff1Pending, eff2Pending,
          lastOp>>

\* Rounds that may be started (startNewGame calls) in one run of the model.
MaxRounds == 2

\* null (line 6) and the undefined of an unassigned move (line 111).
Null == "null"
Undefined == -1
\* Infinity of lines 89 and 110: scores lie in -1..1, so 2 exceeds them all.
Infinity == 2
\* Lines 12 and 23.
CountdownStart == 3

Cells == 0..8
Marks == {"X", "O"}
emptyBoard == [i \in Cells |-> Null]

Count(b, m) == Cardinality({i \in Cells : b[i] = m})

\* ------------------------------------------------------------ checkWinner

\* Lines 42-46: the three cells of a combination hold the same mark.
lineWon(b, p, q, r) == b[p] # Null /\ b[p] = b[q] /\ b[p] = b[r]

\* checkWinner with the last combination ([2, 4, 6]) left out.
checkWinnerNoAntiDiagonal(currentBoard) ==
  IF lineWon(currentBoard, 0, 1, 2) THEN currentBoard[0]
  ELSE IF lineWon(currentBoard, 3, 4, 5) THEN currentBoard[3]
  ELSE IF lineWon(currentBoard, 6, 7, 8) THEN currentBoard[6]
  ELSE IF lineWon(currentBoard, 0, 3, 6) THEN currentBoard[0]
  ELSE IF lineWon(currentBoard, 1, 4, 7) THEN currentBoard[1]
  ELSE IF lineWon(currentBoard, 2, 5, 8) THEN currentBoard[2]
  ELSE IF lineWon(currentBoard, 0, 4, 8) THEN currentBoard[0]
  ELSE IF \A i \in Cells : currentBoard[i] # Null THEN "Tie" ELSE Null

\* Lines 28-52: the combinations are scanned in the order of lines 30-37 and
\* the first completed one decides; then a board without empty cell is a tie.
checkWinner(currentBoard) ==
  IF lineWon(currentBoard, 0, 1, 2) THEN currentBoard[0]
  ELSE IF lineWon(currentBoard, 3, 4, 5) THEN currentBoard[3]
  ELSE IF lineWon(currentBoard, 6, 7, 8) THEN currentBoard[6]
  ELSE IF lineWon(currentBoard, 0, 3, 6) THEN currentBoard[0]
  ELSE IF lineWon(currentBoard, 1, 4, 7) THEN currentBoard[1]
  ELSE IF lineWon(currentBoard, 2, 5, 8) THEN currentBoard[2]
  ELSE IF lineWon(currentBoard, 0, 4, 8) THEN currentBoard[0]
  ELSE IF lineWon(currentBoard, 2, 4, 6) THEN currentBoard[2]
  ELSE IF \A i \in Cells : currentBoard[i] # Null THEN "Tie" ELSE Null

\* ---------------------------------------------------------------- minimax

\* Math.max / Math.min folded over the scores of a loop (lines 97-99),
\* starting from the initial bestScore of line 89.
MaxOf(scores) == CHOOSE s \in scores \cup {-Infinity} :
                   \A t \in scores \cup {-Infinity} : t <= s
MinOf(scores) == CHOOSE s \in scores \cup {Infinity} :
                   \A t \in scores \cup {Infinity} : s <= t

RECURSIVE minimax(_, _)

\* Lines 83-103.  The array is restored after each recursive call (line 96),
\* so the call is a function of its arguments; the loop of lines 92-101
\* folds max (min) over the scores of the empty cells.
minimax(newBoard, isMaximizing) ==
  LET result == checkWinner(newBoard) IN
  IF result = "X" THEN -1
  ELSE IF result = "O" THEN 1
  ELSE IF result = "Tie" THEN 0
  ELSE LET player == IF isMaximizing THEN "O" ELSE "X"
           scores == {minimax([newBoard EXCEPT ![i] = player], ~isMaximizing) :
                        i \in {j \in Cells : newBoard[j] = Null}}
       IN IF isMaximizing THEN MaxOf(scores) ELSE MinOf(scores)

\* Math.max and Math.min of lines 97-99, on two arguments as the code calls
\* them.
Max(a, b) == IF a > b THEN a ELSE b
Min(a, b) == IF a < b THEN a ELSE b

\* minimax of lines 83-103 on the array itself.  minimax receives a reference
\* to the caller's array, writes the speculative mark into it (line 94),
\* recurses on the same array (line 95) and writes null back (line 96).
\* minimaxInPlace returns the score together with the contents of that array
\* at the return, so that what the caller finds in its array is part of the
\* result.
RECURSIVE minimaxInPlace(_, _)

\* The loop body of lines 93-100 with line 96 left out.
minimaxVisitNoUndo(st, i, isMaximizing) ==
  IF st.arr[i] = Null
    THEN LET player == IF isMaximizing THEN "O" ELSE "X"
             r == minimaxInPlace([st.arr EXCEPT ![i] = player], ~isMaximizing)
         IN [arr |-> r.arr,
             best |-> IF isMaximizing THEN Max(r.score, st.best)
                                      ELSE Min(r.score, st.best)]
    ELSE st

\* Lines 93-100: one pass of the loop body for cell i.  st.arr is the array,
\* st.best is bestScore.  The recursive call works on the array with the mark
\* of line 94 in it; line 96 clears cell i in the array as that call left it.
minimaxVisit(st, i, isMaximizing) ==
  IF st.arr[i] = Null
    THEN LET player == IF isMaximizing THEN "O" ELSE "X"
             r == minimaxInPlace([st.arr EXCEPT ![i] = player], ~isMaximizing)
         IN [arr |-> [r.arr EXCEPT ![i] = Null],
             best |-> IF isMaximizing THEN Max(r.score, st.best)
                                      ELSE Min(r.score, st.best)]
    ELSE st

\* Lines 83-103.  The loop of line 92 visits the nine cells in index order.
minimaxInPlace(newBoard, isMaximizing) ==
  LET result == checkWinner(newBoard) IN
  IF result = "X" THEN [score |-> -1, arr |-> newBoard]
  ELSE IF result = "O" THEN [score |-> 1, arr |-> newBoard]
  ELSE IF result = "Tie" THEN [score |-> 0, arr |-> newBoard]
  ELSE LET s0 == [arr |-> newBoard,
                  best |-> IF isMaximizing THEN -Infinity ELSE Infinity]
           s1 == minimaxVisit(s0, 0, isMaximizing)
           s2 == minimaxVisit(s1, 1, isMaximizing)
           s3 == minimaxVisit(s2, 2, isMaximizing)
           s4 == minimaxVisit(s3, 3, isMaximizing)
           s5 == minimaxVisit(s4, 4, isMaximizing)
           s6 == minimaxVisit(s5, 5, isMaximizing)
           s7 == minimaxVisit(s6, 6, isMaximizing)
           s8 == minimaxVisit(s7, 7, isMaximizing)
           s9 == minimaxVisit(s8, 8, isMaximizing)
       IN [score |-> s9.best, arr |-> s9.arr]

\* ----------------------------------------------------------- computerMove

\* Line 116 with the search started for the wrong side.
moveScoreWrongSide(b, i) == minimax([b EXCEPT ![i] = "O"], TRUE)

\* Lines 114-116: the score of answering at the empty cell i.
moveScore(b, i) == minimax([b EXCEPT ![i] = "O"], FALSE)

\* Line 117 with >= for >: a later cell of equal score replaces the move.
betterScoreOrEqual(score, bestScore) == score >= bestScore

\* Line 117 with < for >: no score is below the initial -Infinity.
betterScoreReversed(score, bestScore) == score < bestScore

\* Line 117.
betterScore(score, bestScore) == score > bestScore

RECURSIVE computerMoveLoop(_, _, _, _)

\* Lines 106-121: emptySquares is ascending, so the loop visits the empty
\* cells in index order; it returns move (Undefined when none was chosen).
computerMoveLoop(b, i, bestScore, move) ==
  IF i >= 9 THEN move
  ELSE IF b[i] = Null
    THEN LET score == moveScore(b, i) IN
         IF betterScore(score, bestScore)
           THEN computerMoveLoop(b, i + 1, score, i)
           ELSE computerMoveLoop(b, i + 1, bestScore, move)
    ELSE computerMoveLoop(b, i + 1, bestScore, move)

\* Lines 110-121: the move computerMove chooses on b.
chosenMove(b) == computerMoveLoop(b, 0, -Infinity, Undefined)

\* Lines 123-127: the board computerMove sets, given the move it chose (no
\* setBoard call when move is undefined: the same board).
boardAfterMove(b, move) ==
  IF move # Undefined THEN [b EXCEPT ![move] = "O"] ELSE b

\* ---------------------------------------------------------------- effects

\* The condition of line 132 without the test of !isPlayerTurn.
aiTurnBranchOnAnyTurn ==
  winner = Null /\ countdown = 0 /\ roundReady

\* Line 132: the condition under which the first effect sets the AI timer
\* (and returns before the winner check of lines 140-143).
aiTurnBranch ==
  ~isPlayerTurn /\ winner = Null /\ countdown = 0 /\ roundReady

\* Lines 140-141 without the test of !winner in line 141.
recordsWinnerAgain ==
  eff1Pending /\ ~aiTurnBranch /\ checkWinner(board) # Null

\* Lines 140-141: the first effect, when it runs, calls updateWinner.
recordsWinner ==
  eff1Pending /\ ~aiTurnBranch /\ checkWinner(board) # Null /\ winner = Null

\* Lines 152-153: the second effect, when it runs, sets roundReady.
countdownDone ==
  eff2Pending /\ ~(countdown > 0 /\ gameStarted)
              /\ countdown = 0 /\ gameStarted /\ ~roundReady

\* The state once the pending effects have run on the committed state.
\* Lines 54-64 (updateWinner): one tally is increased, winner is set,
\* roundReady is set.
winnerAfter == IF recordsWinner THEN checkWinner(board) ELSE winner

playerScoreAfter ==
  IF recordsWinner /\ checkWinner(board) = "X" THEN playerScore + 1
  ELSE playerScore

aiScoreAfter ==
  IF recordsWinner /\ checkWinner(board) = "O" THEN aiScore + 1 ELSE aiScore

drawsAfter ==
  IF recordsWinner /\ checkWinner(board) = "Tie" THEN draws + 1 ELSE draws

roundReadyAfter == roundReady \/ recordsWinner \/ countdownDone

\* Lines 134-137: a re-run of the first effect clears its timeout (cleanup)
\* and sets a new one in the branch of line 132.
aiTimerAfter == IF eff1Pending THEN aiTurnBranch ELSE aiTimer

\* Lines 147-149: the same for the countdown timeout.
cdTimerAfter == IF eff2Pending THEN (countdown > 0 /\ gameStarted) ELSE cdTimer

\* What every commit does with the pending effects: they are flushed on the
\* committed state before the new render, and the tallies, which only the
\* effects set, take the flushed values.
FlushTallies ==
  /\ playerScore' = playerScoreAfter
  /\ aiScore' = aiScoreAfter
  /\ draws' = drawsAfter

\* The dependency lists of lines 144 and 155: the effects that have to run
\* after the commit.  nb says that setBoard was called (a new array).
DepsChanged(nb) ==
  /\ eff1Pending' = (nb \/ isPlayerTurn' # isPlayerTurn
                        \/ countdown' # countdown
                        \/ roundReady' # roundReady \/ winner' # winner)
  /\ eff2Pending' = (countdown' # countdown \/ gameStarted' # gameStarted
                        \/ roundReady' # roundReady)

\* Lines 131-155: the pending passive effects run.
RunEffects ==
  /\ eff1Pending \/ eff2Pending
  /\ winner' = winnerAfter
  /\ roundReady' = roundReadyAfter
  /\ FlushTallies
  /\ aiTimer' = aiTimerAfter
  /\ cdTimer' = cdTimerAfter
  /\ UNCHANGED <<board, isPlayerTurn, countdown, gameStarted>>
  /\ DepsChanged(FALSE)
  /\ lastOp' = "effects"

\* ---------------------------------------------------------------- handlers

\* handleClick's guard without the test of board[index].
clickAcceptedOnAnyCell(index) ==
  ~(winner # Null \/ countdown > 0 \/ ~gameStarted \/ ~roundReady
      \/ ~isPlayerTurn)

\* handleClick's guard without the test of isPlayerTurn.
clickAcceptedOnAnyTurn(index) ==
  ~(board[index] # Null \/ winner # Null \/ countdown > 0 \/ ~gameStarted
      \/ ~roundReady)

\* Lines 67-75: handleClick does not return early.
clickAccepted(index) ==
  ~(board[index] # Null \/ winner # Null \/ countdown > 0 \/ ~gameStarted
      \/ ~roundReady \/ ~isPlayerTurn)

\* Lines 66-81.  A rejected click sets no state: nothing is rendered and the
\* pending effects stay pending.
HandleClick(index) ==
  IF clickAccepted(index)
    THEN /\ board' = [board EXCEPT ![index] = "X"]
         /\ isPlayerTurn' = FALSE
         /\ winner' = winnerAfter
         /\ roundReady' = roundReadyAfter
         /\ FlushTallies
         /\ aiTimer' = aiTimerAfter
         /\ cdTimer' = cdTimerAfter
         /\ UNCHANGED <<countdown, gameStarted>>
         /\ DepsChanged(TRUE)
         /\ lastOp' = "handleClick"
    ELSE UNCHANGED vars

\* Lines 105-129, called by the timeout of lines 134-136.
ComputerMove ==
  /\ aiTimer
  /\ isPlayerTurn' = TRUE
  /\ winner' = winnerAfter
  /\ roundReady' = roundReadyAfter
  /\ FlushTallies
  /\ aiTimer' = FALSE
  /\ cdTimer' = cdTimerAfter
  /\ UNCHANGED <<countdown, gameStarted>>
  /\ lastOp' = "computerMove"
  /\ LET move == chosenMove(board) IN
       /\ board' = boardAfterMove(board, move)
       /\ DepsChanged(move # Undefined)

\* Line 148: the countdown timeout fires.
CountdownTick ==
  /\ cdTimer
  /\ countdown' = countdown - 1
  /\ winner' = winnerAfter
  /\ roundReady' = roundReadyAfter
  /\ FlushTallies
  /\ aiTimer' = aiTimerAfter
  /\ cdTimer' = FALSE
  /\ UNCHANGED <<board, isPlayerTurn, gameStarted>>
  /\ DepsChanged(FALSE)
  /\ lastOp' = "countdownTick"

\* Lines 169-190: one of the two buttons that call startNewGame is rendered.
startButtonShown ==
  ~gameStarted \/ (countdown = 0 /\ winner # Null /\ roundReady)

\* Lines 19-26, called by the buttons of lines 172 and 185.
StartNewGame ==
  /\ startButtonShown
  /\ playerScoreAfter + aiScoreAfter + drawsAfter < MaxRounds
  /\ board' = emptyBoard
  /\ isPlayerTurn' = TRUE
  /\ winner' = Null
  /\ countdown' = CountdownStart
  /\ gameStarted' = TRUE
  /\ roundReady' = FALSE
  /\ FlushTallies
  /\ aiTimer' = aiTimerAfter
  /\ cdTimer' = cdTimerAfter
  /\ DepsChanged(TRUE)
  /\ lastOp' = "startNewGame"

\* ----------------------------------------------------------- specification

\* Lines 6-14, after the mount: neither effect does anything on this state.
Init ==
  /\ board = emptyBoard
  /\ isPlayerTurn = TRUE
  /\ winner = Null
  /\ playerScore = 0
  /\ aiScore = 0
  /\ draws = 0
  /\ countdown = CountdownStart
  /\ gameStarted = FALSE
  /\ roundReady = FALSE
  /\ aiTimer = FALSE
  /\ cdTimer = FALSE
  /\ eff1Pending = FALSE
  /\ eff2Pending = FALSE
  /\ lastOp = "mount"

Next ==
  \/ StartNewGame
  \/ CountdownTick
  \/ \E index \in Cells : HandleClick(index)
  \/ ComputerMove
  \/ RunEffects

Spec == Init /\ [][Next]_vars

\* Lines 134-136: the step in which the AI timeout fires and its callback,
\* computerMove, runs.  The steps of Next that satisfy it are the
\* ComputerMove steps, and it is enabled exactly when the timeout is pending.
TimeoutFires == aiTimer /\ aiTimer' = FALSE /\ lastOp' = "computerMove"

\* The same machine under the scheduling the runtime gives: a timeout that
\* is set and not cleared fires (lines 134 and 148), and an effect that is
\* pending after a commit runs (lines 131 and 146).  Clicks are the user's
\* and are not forced.
SpecFair ==
  /\ Spec
  /\ WF_<<aiTimer, lastOp>>(TimeoutFires)
  /\ WF_vars(CountdownTick)
  /\ WF_vars(RunEffects)

\* The engine on every board: the state in which the first effect has just
\* set the AI timer (line 134), for every board that satisfies the mark-count
\* rule, so that computerMove and checkWinner are applied to all of them.
WellFormedBoards ==
  {b \in [Cells -> Marks \cup {Null}] :
     Count(b, "X") - Count(b, "O") \in {0, 1}}

InitEngine ==
  /\ board \in WellFormedBoards
  /\ isPlayerTurn = FALSE
  /\ winner = Null
  /\ playerScore = 0
  /\ aiScore = 0
  /\ draws = 0
  /\ countdown = 0
  /\ gameStarted = TRUE
  /\ roundReady = TRUE
  /\ aiTimer = TRUE
  /\ cdTimer = FALSE
  /\ eff1Pending = FALSE
  /\ eff2Pending = FALSE
  /\ lastOp = "effects"

NextEngine ==
  \/ ComputerMove
  \/ RunEffects
  \/ \E index \in Cells : HandleClick(index)

SpecEngine == InitEngine /\ [][NextEngine]_vars

\* ------------------------------------------------- vocabulary of the claims

Lines == {<<0, 1, 2>>, <<3, 4, 5>>, <<6, 7, 8>>, <<0, 3, 6>>, <<1, 4, 7>>,
          <<2, 5, 8>>, <<0, 4, 8>>, <<2, 4, 6>>}

HasLine(b, m) == \E l \in Lines : b[l[1]] = m /\ b[l[2]] = m /\ b[l[3]] = m
Full(b) == \A i \in Cells : b[i] # Null
EmptyCells(b) == {i \in Cells : b[i] = Null}
Terminal(b) == HasLine(b, "X") \/ HasLine(b, "O") \/ Full(b)
CountOK(b) == Count(b, "X") - Count(b, "O") \in {0, 1}
Place(b, i, m) == [b EXCEPT ![i] = m]

\* The game-theoretic value for O of board b with toMove to play:
\* +1 O wins, 0 draw, -1 X wins.
RECURSIVE GameValue(_, _)
GameValue(b, toMove) ==
  IF HasLine(b, "O") THEN 1
  ELSE IF HasLine(b, "X") THEN -1
  ELSE IF Full(b) THEN 0
  ELSE LET vs == {GameValue(Place(b, i, toMove),
                            IF toMove = "O" THEN "X" ELSE "O") :
                    i \in EmptyCells(b)}
       IN IF toMove = "O"
            THEN CHOOSE v \in vs : \A w \in vs : w <= v
            ELSE CHOOSE v \in vs : \A w \in vs : v <= w

\* The step in which the timer calls computerMove.
ComputerMoveStep == aiTimer /\ ~aiTimer' /\ lastOp' = "computerMove"

\* The step in which handleClick places an X.
ClickStep == lastOp' = "handleClick" /\ board' # board

\* A timer callback reads the state of the render whose effect set the timer.
\* No commit happens while a timer is pending, so that state is the current
\* one, as ComputerMove and CountdownTick take it to be.
TimerClosureFresh == (aiTimer \/ cdTimer) => ~(eff1Pending \/ eff2Pending)

\* ------------------------------------------------------------------ claims

\* C1: the engine never loses: no reachable board holds a completed X line,
\* winner is never "X" and playerScore never increases.
C1_EngineNeverLoses ==
  ~HasLine(board, "X") /\ winner # "X" /\ playerScore = 0

\* The part of C1 that holds of the code: a loss is never recorded.
C1_NoLossRecorded == winner # "X" /\ playerScore = 0

\* C2: on every non-terminal board with one X more than O, the cell
\* computerMove plays has the maximal game-theoretic value for O among the
\* empty cells.
C2_ComputerMoveOptimal ==
  [][(ComputerMoveStep /\ ~Terminal(board)
        /\ Count(board, "X") = Count(board, "O") + 1)
       => \E m \in EmptyCells(board) :
            /\ board' = Place(board, m, "O")
            /\ \A j \in EmptyCells(board) :
                 GameValue(Place(board, j, "O"), "X") <= GameValue(board', "X")
     ]_vars

\* computerMove has answered the corner opening with the centre, the one
\* reply after which X cannot force a win.
C2_Witness ==
  /\ lastOp = "computerMove"
  /\ board = Place(Place(emptyBoard, 0, "X"), 4, "O")
  /\ \A j \in Cells \ {0, 4} :
       GameValue(Place(Place(emptyBoard, 0, "X"), j, "O"), "X") = -1

\* C3: computerMove plays the lowest-indexed empty cell among those whose
\* minimax score is maximal; on the empty board that is cell 0.
C3_LowestIndexTieBreak ==
  [][(ComputerMoveStep /\ EmptyCells(board) # {})
       => LET sc == [j \in EmptyCells(board) |-> moveScore(board, j)] IN
          /\ \E m \in EmptyCells(board) :
               /\ board' = Place(board, m, "O")
               /\ \A j \in EmptyCells(board) :
                    sc[j] <= sc[m] /\ (j < m => sc[j] < sc[m])
          /\ board = emptyBoard => board' = Place(emptyBoard, 0, "O")
     ]_vars

\* computerMove has played on the empty board, where all nine cells score
\* the same, and taken cell 0.
C3_Witness ==
  /\ lastOp = "computerMove"
  /\ board = Place(emptyBoard, 0, "O")
  /\ \A j \in Cells : moveScore(emptyBoard, j) = moveScore(emptyBoard, 0)

\* C4 as claimed: on every board that satisfies the mark-count rule,
\* checkWinner returns mark m exactly when some line is all m, "Tie" exactly
\* when no line is won and the board is full, and null otherwise.
C4_CheckWinnerExact ==
  CountOK(board) =>
    /\ \A m \in Marks : checkWinner(board) = m <=> HasLine(board, m)
    /\ checkWinner(board) = "Tie"
         <=> (~HasLine(board, "X") /\ ~HasLine(board, "O") /\ Full(board))
    /\ checkWinner(board) = Null
         <=> (~HasLine(board, "X") /\ ~HasLine(board, "O") /\ ~Full(board))

\* C4 as amended: checkWinner returns a mark exactly when some line is
\* completed, and the mark it returns has a completed line (so it is m
\* exactly when m has one, on the boards where at most one mark has); "Tie"
\* exactly when no line is won and the board is full; null otherwise.
C4_CheckWinnerCorrect ==
  CountOK(board) =>
    /\ checkWinner(board) \in Marks
         <=> (HasLine(board, "X") \/ HasLine(board, "O"))
    /\ checkWinner(board) \in Marks => HasLine(board, checkWinner(board))
    /\ ~(HasLine(board, "X") /\ HasLine(board, "O"))
         => \A m \in Marks : checkWinner(board) = m <=> HasLine(board, m)
    /\ checkWinner(board) = "Tie"
         <=> (~HasLine(board, "X") /\ ~HasLine(board, "O") /\ Full(board))
    /\ checkWinner(board) = Null
         <=> (~HasLine(board, "X") /\ ~HasLine(board, "O") /\ ~Full(board))

\* A board within the mark-count rule on which both marks have a line, and
\* checkWinner reports the one scanned first.
C4_Witness ==
  /\ CountOK(board)
  /\ HasLine(board, "X") /\ HasLine(board, "O")
  /\ lineWon(board, 0, 1, 2) /\ board[0] = "O"
  /\ checkWinner(board) = "O"

\* C5: in every reachable state the number of X cells minus the number of O
\* cells is 0 or 1.
C5_MarkCount == Count(board, "X") - Count(board, "O") \in {0, 1}

\* Four marks each, the last one placed by computerMove.
C5_Witness ==
  /\ lastOp = "computerMove"
  /\ Count(board, "X") = 4 /\ Count(board, "O") = 4

\* C6: once the board is terminal no cell changes until startNewGame
\* replaces the board.
C6_TerminalImmutable ==
  [][checkWinner(board) # Null
       => (board' = board \/ lastOp' = "startNewGame")]_vars

\* C7: whenever computerMove runs, checkWinner(board) is null and the board
\* has an empty cell.
C7_SearchOnlyInProgress ==
  [][ComputerMoveStep
       => (checkWinner(board) = Null /\ EmptyCells(board) # {})]_vars

\* C8: computerMove on a board where checkWinner is non-null changes neither
\* the board nor the turn (it ends in an error instead).
C8_TerminalSearchRejected ==
  [][(ComputerMoveStep /\ checkWinner(board) # Null)
       => (board' = board /\ isPlayerTurn' = isPlayerTurn)]_vars

\* C9: handleClick on an occupied cell changes neither board nor
\* isPlayerTurn nor winner, and triggers no AI move: it changes nothing.
C9_OccupiedClickIgnored ==
  [][\A index \in Cells :
       (board[index] # Null /\ HandleClick(index)) => UNCHANGED vars]_vars

\* It is the human's turn in a running round and a cell is occupied: a click
\* on it is rejected for that reason alone.
C9_Witness ==
  /\ isPlayerTurn /\ winner = Null /\ countdown = 0 /\ gameStarted
  /\ roundReady
  /\ \E index \in Cells :
       board[index] # Null /\ clickAccepted(index) = FALSE
         /\ clickAcceptedOnAnyCell(index)

\* C10: no reachable board holds both a completed X line and a completed O
\* line.
C10_OneWinner == ~(HasLine(board, "X") /\ HasLine(board, "O"))

\* The empty cells at which an O completes a line at once.
WinCells(b) == {i \in EmptyCells(b) : HasLine(Place(b, i, "O"), "O")}

\* Scenario 2 with the engine's mark for A: [O, O, -, X, X, -, -, -, -].
Scenario2Board ==
  [i \in Cells |-> IF i \in {0, 1} THEN "O" ELSE IF i \in {3, 4} THEN "X"
                   ELSE Null]

\* C11 as claimed: on every non-terminal board on which some empty cell
\* completes a line for O, computerMove plays such a cell.
C11_ImmediateWinPlayed ==
  [][(ComputerMoveStep /\ ~Terminal(board) /\ WinCells(board) # {})
       => \E m \in WinCells(board) : board' = Place(board, m, "O")]_vars

\* C11 as amended: on such a board computerMove plays a cell after which O
\* wins against every play of X (game value +1), which need not complete a
\* line at once; on the board of scenario 2 it plays cell 2.
C11_WinningMovePlayed ==
  [][(ComputerMoveStep /\ ~Terminal(board) /\ WinCells(board) # {})
       => /\ \E m \in EmptyCells(board) :
               /\ board' = Place(board, m, "O")
               /\ GameValue(board', "X") = 1
          /\ board = Scenario2Board => board' = Place(Scenario2Board, 2, "O")
     ]_vars

\* On O X X / O - - / - X - cell 6 completes the column 0-3-6, and
\* computerMove has played cell 4, which wins one move later.
C11_Witness ==
  /\ lastOp = "computerMove"
  /\ board = [i \in Cells |-> IF i \in {0, 3, 4} THEN "O"
                              ELSE IF i \in {1, 2, 7} THEN "X" ELSE Null]
  /\ 6 \in WinCells(Place(board, 4, Null))
  /\ ~HasLine(board, "O")

\* Scenario 3: [X, O, X, O, X, O, -, -, -], the engine (O) to move.
Scenario3Board ==
  [i \in Cells |-> IF i \in {0, 2, 4} THEN "X" ELSE IF i \in {1, 3, 5} THEN "O"
                   ELSE Null]

\* C12: on the board of scenario 3 computerMove plays cell 6 or cell 8, not
\* cell 7.
C12_Scenario3Blocks ==
  [][(ComputerMoveStep /\ board = Scenario3Board)
       => board' \in {Place(Scenario3Board, 6, "O"),
                      Place(Scenario3Board, 8, "O")}]_vars

\* computerMove has played on the board of scenario 3 (all three cells
\* score -1 there: X threatens both 6 and 8).
C12_Witness ==
  /\ lastOp = "computerMove"
  /\ \E m \in {6, 7, 8} : board = Place(Scenario3Board, m, "O")
  /\ \A j \in {6, 7, 8} : moveScore(Scenario3Board, j) = -1

\* C13: minimax never mutates the caller's board: every speculative placement
\* is undone before it returns.  On every computerMove step that plays a
\* cell, the call computerMove makes for that cell (line 114, on the array
\* with O in it) leaves the array as it was given and returns the score
\* the search is modelled with, and the step changes the board in the played
\* cell only.
C13_MinimaxRestoresBoard ==
  [][(ComputerMoveStep /\ board' # board) =>
       LET r == minimaxInPlace(board', FALSE) IN
         /\ r.arr = board'
         /\ r.score = minimax(board', FALSE)
         /\ \E i \in EmptyCells(board) : board' = Place(board, i, "O")]_vars

\* computerMove has answered the opening at the corner: the call of line 114
\* searched the seven cells left of a board with two marks.
C13_Witness ==
  /\ lastOp = "computerMove"
  /\ Count(board, "X") = 1 /\ Count(board, "O") = 1
  /\ board[0] = "X" /\ board[4] = "O"

\* C14: the turn flag never desynchronizes from the board.  In a started
\* round whose board is in progress, isPlayerTurn is true exactly when the
\* board holds as many X as O, and false exactly when it holds one X more.
C14_TurnMatchesBoard ==
  (gameStarted /\ checkWinner(board) = Null) =>
    /\ isPlayerTurn <=> Count(board, "X") = Count(board, "O")
    /\ ~isPlayerTurn <=> Count(board, "X") = Count(board, "O") + 1

\* Both directions have happened in one round: the human has moved twice and
\* the engine has answered twice, the board being in progress with the turn
\* back at the human.
C14_Witness ==
  /\ gameStarted /\ checkWinner(board) = Null
  /\ lastOp = "computerMove" /\ isPlayerTurn
  /\ Count(board, "X") = 2 /\ Count(board, "O") = 2

\* C15: the stored outcome is never stale.  A non-null winner equals
\* checkWinner of the current board.
C15_WinnerNotStale == winner # Null => winner = checkWinner(board)

\* C15, second half: startNewGame clears winner together with the board.
C15_StartClearsWinner ==
  [][lastOp' = "startNewGame" => (winner' = Null /\ board' = emptyBoard)]_vars

\* The change of the three tallies in a step, and the change that records
\* outcome w.
TallyStep ==
  <<playerScore' - playerScore, aiScore' - aiScore, draws' - draws>>
TallyFor(w) ==
  IF w = "X" THEN <<1, 0, 0>> ELSE IF w = "O" THEN <<0, 1, 0>> ELSE <<0, 0, 1>>

\* C16: each round is tallied exactly once.  The tallies change only in the
\* step that stores a winner, where the one matching that winner grows by 1;
\* a stored winner stays until startNewGame clears it, and a started round
\* is left by startNewGame only with a winner stored: no re-run of the
\* winner check tallies a round again.
C16_TalliedOnce ==
  [][/\ (winner = Null /\ winner' # Null) => TallyStep = TallyFor(winner')
     /\ ~(winner = Null /\ winner' # Null) => TallyStep = <<0, 0, 0>>
     /\ winner # Null =>
          (winner' = winner \/ (winner' = Null /\ lastOp' = "startNewGame"))
     /\ (lastOp' = "startNewGame" /\ gameStarted) => winner # Null]_vars

\* C16: the tallies count the rounds that have a recorded winner.
C16_TallyCountsRounds ==
  /\ winner # Null => playerScore + aiScore + draws >= 1
  /\ ~gameStarted => playerScore + aiScore + draws = 0

\* Two rounds have been played and recorded, a win of the engine and a draw,
\* and the winner check has run again on the recorded round.
C16_Witness ==
  /\ winner # Null /\ lastOp = "effects" /\ ~eff1Pending
  /\ aiScore = 1 /\ draws = 1 /\ playerScore = 0

\* The human has placed the n-th X and the board is in progress.
HumanMoved(n) ==
  lastOp = "handleClick" /\ checkWinner(board) = Null /\ Count(board, "X") = n

\* computerMove has answered the n-th X: the board holds n marks of each
\* side and the turn is the human's.
EngineAnswered(n) ==
  /\ lastOp = "computerMove" /\ isPlayerTurn
  /\ Count(board, "X") = n /\ Count(board, "O") = n

\* C17: the AI answers each human move exactly once.  After a handleClick
\* that leaves the board in progress, computerMove eventually runs and the
\* turn is the human's again; a computerMove on a board in progress places
\* exactly one O and gives the turn back; an O is only ever placed on a board
\* that holds one X more than O, so no second O precedes the next human
\* move; and the effect never runs while an AI timer is pending, so no
\* second timer is set beside it.
C17_AnsweredExactlyOnce ==
  /\ \A n \in 1..4 : HumanMoved(n) ~> EngineAnswered(n)
  /\ [][/\ (ComputerMoveStep /\ checkWinner(board) = Null) =>
              /\ \E i \in EmptyCells(board) : board' = Place(board, i, "O")
              /\ isPlayerTurn'
        /\ Count(board', "O") > Count(board, "O") =>
              /\ ComputerMoveStep
              /\ Count(board', "O") = Count(board, "O") + 1
              /\ Count(board, "X") = Count(board, "O") + 1]_vars
  /\ [](aiTimer => ~eff1Pending /\ ~isPlayerTurn)

\* The engine has answered the human's third move and the round goes on.
C17_Witness ==
  EngineAnswered(3) /\ checkWinner(board) = Null /\ ~aiTimer

\* The steps in which the AI timeout fires are the ComputerMove steps.
TimeoutRunsComputerMove == [][TimeoutFires <=> ComputerMove]_vars

\* C18: a terminal board is eventually recorded.  Whenever the board is
\* terminal with no winner stored, winner eventually equals checkWinner of
\* the board.
C18_TerminalRecorded ==
  (checkWinner(board) # Null /\ winner = Null) ~> (winner = checkWinner(board))

\* C18, the part that holds: the round does not stay stuck with winner null.
C18_WinnerEventuallyStored ==
  (checkWinner(board) # Null /\ winner = Null) ~> (winner # Null)

\* C18, the full-board draw after the human's fifth X: it is recorded as a
\* tie although the effect first takes the AI-trigger branch.
C18_DrawRecorded ==
  (checkWinner(board) = "Tie" /\ winner = Null) ~> (winner = "Tie")

====
